---- MODULE Spec2Model ----
(***************************************************************************)
(* Model of src/monitor.py: the per-sensor debounce of HikSensor           *)
(* (update_callback / send_mail) as wired by main().                       *)
(*                                                                         *)
(* Timestamps are Python datetimes; they are modelled as integer counts of *)
(* microseconds (the resolution of datetime), so that a timedelta is the   *)
(* difference of two integers and total_seconds() > 60 is decided exactly. *)
(* A value that may be None/falsy (self._sensor_last_trigger) is the empty *)
(* sequence << >> when absent and the one-element sequence <<t>> when set. *)
(***************************************************************************)
EXTENDS Integers, Sequences, FiniteSets, TLC

\* ---------------------------------------------------------------- bounds
\* Most update_callback invocations in one behaviour.
MaxCalls == 3

\* ------------------------------------------------------ program constants
\* timedelta(seconds=60) subtracted from datetime.now() in __init__.
ArmOffset == 60
\* difference.total_seconds() > 60 in update_callback.
Window == 60
\* datetime/timedelta resolution: total_seconds() is microseconds / 10^6.
MicrosPerSecond == 1000000

Sec(n) == n * MicrosPerSecond

\* The clock readings (datetime.now()) the model distinguishes, in
\* microseconds: 0 s, 30 s, 90 s.
Times == {0, Sec(30), Sec(90)}
\* The clock readings at which main() may have constructed the HikSensors:
\* 0.001 s before the first reading of Times, or at it.
CTimes == {0 - 1000, 0}

\* main(): the cameras and, per camera, the sensor channels it exposes.
Cameras == {"back_door", "driveway"}
Monitors == {<<"back_door", "Motion", 1>>, <<"back_door", "Motion", 2>>,
             <<"driveway", "Motion", 1>>}
CamOf(m) == m[1]

VARIABLES
    now,            \* datetime.now(): the wall clock
    callback_url,   \* HikCamObject.callback_url per camera: TRUE iff non-empty
    ctime,          \* clock reading when HikSensor.__init__ ran, per monitor
    sensor_state,   \* cam.fetch_attributes(sensor, channel): [0] state, [3] last update
    last_trigger,   \* HikSensor._sensor_last_trigger, per owning object
    log,            \* per monitor: what each update_callback invocation did
    inflight        \* per monitor: invocations that passed the 60 s check and
                    \* have not yet assigned _sensor_last_trigger

vars == <<now, callback_url, ctime, sensor_state, last_trigger, log, inflight>>

\* ------------------------------------------------------------ the program

\* The object whose _sensor_last_trigger attribute monitor m reads and
\* writes: self, the HikSensor itself.
\* (Owner_shared: the attribute kept once per camera instead.)
Owner_shared(m) == <<CamOf(m), "Motion", 1>>
Owner(m) == m

\* __init__: self._sensor_last_trigger = datetime.now() - timedelta(seconds=60)
\* (InitialLastTrigger_absent: left blank; InitialLastTrigger_now: the
\* offset forgotten.)
InitialLastTrigger_absent(c) == << >>
InitialLastTrigger_now(c) == << c >>
InitialLastTrigger(c) == << c - Sec(ArmOffset) >>

\* Truth value of self._sensor_last_trigger in "if self._sensor_last_trigger:".
Truthy(v) == v # << >>

\* "if self._sensor_state() and self._cam.callback_url:"
\* (Gate_anystate: the sensor state not tested; Gate_anyurl: the callback
\* URL not tested.)
Gate_anystate(active, url) == url
Gate_anyurl(active, url) == active
Gate(active, url) == active /\ url

\* difference = currTime - last ; difference.total_seconds() > 60
\* (ShouldFire_nonstrict: >= in place of >; ShouldFire_seconds: the
\* timedelta's .seconds field, which lies in 0..86399 also for a negative
\* difference, in place of total_seconds().)
ShouldFire_nonstrict(currTime, last) == (currTime - last) >= Sec(Window)
ShouldFire_seconds(currTime, last) ==
    ((currTime - last) \div MicrosPerSecond) % 86400 > Window
ShouldFire(currTime, last) == (currTime - last) > Sec(Window)

\* The value of _sensor_last_trigger once a firing event has been handled:
\* it is assigned currTime before send_mail() is called, so it is currTime
\* whether or not send_mail raises.
\* (TriggerAfterFire_onsuccess: assigned only after send_mail completed;
\* TriggerAfterFire_stale: the assignment forgotten.)
TriggerAfterFire_onsuccess(currTime, last, mail_ok) ==
    IF mail_ok THEN <<currTime>> ELSE <<last>>
TriggerAfterFire_stale(currTime, last, mail_ok) == <<last>>
TriggerAfterFire(currTime, last, mail_ok) == <<currTime>>

\* Whether requests.get(callback_url) is reached: it follows the inner
\* if/else inside the gated block, so it runs for every gated event unless
\* send_mail raised before it.
\* (ReachesGet_onlyfire: the GET placed inside the firing branch;
\* ReachesGet_always: the GET issued even when send_mail raised.)
ReachesGet_onlyfire(gated, fired, mail_raised) == gated /\ fired /\ ~mail_raised
ReachesGet_always(gated, fired, mail_raised) == gated
ReachesGet(gated, fired, mail_raised) == gated /\ ~mail_raised

\* self._name = "{} {} {}".format(cam name, sensor, channel)
SensorName(m) == <<m[1], m[2], m[3]>>

\* The steps of send_mail(), in the order of its statements: the trigger
\* time is formatted and the subject and text body are composed before the
\* snapshot is fetched; the snapshot is then attached and the message sent.
\* (SendMailOrder_cached: no snapshot fetched, an earlier image reused.)
SendMailOrder_cached ==
    <<"format_trigger_time", "compose_subject", "compose_body",
      "attach_snapshot", "smtp_connect", "starttls", "login", "sendmail",
      "close">>
SendMailOrder ==
    <<"format_trigger_time", "compose_subject", "compose_body", "get_picture",
      "attach_snapshot", "smtp_connect", "starttls", "login", "sendmail",
      "close">>

\* Position of step x in the step sequence q (0 if it does not occur).
Pos(q, x) ==
    IF \E i \in 1..Len(q) : q[i] = x
    THEN CHOOSE i \in 1..Len(q) : q[i] = x /\ \A j \in 1..(i - 1) : q[j] # x
    ELSE 0

\* The steps send_mail() runs: all of them when it completes, and those up to
\* and including the step fail_at when that step raises.
SendMailSteps(mail_ok, fail_at) ==
    IF mail_ok \/ Pos(SendMailOrder, fail_at) = 0 THEN SendMailOrder
    ELSE SubSeq(SendMailOrder, 1, Pos(SendMailOrder, fail_at))

\* One invocation of update_callback on monitor m, where st is the sensor
\* state the adapter reports (_sensor_state(), _sensor_last_update()), before
\* is the value of _sensor_last_trigger the invocation reads, mail_ok says
\* whether send_mail() completes (fail_at: the step of it that raises
\* otherwise) and get_ok whether requests.get() completes. The result is the
\* record logged for the invocation; its field "after" is the new
\* _sensor_last_trigger.
HandleWith(m, st, before, mail_ok, fail_at, get_ok) ==
    LET active   == st.active
        currTime == st.last_update
        gated    == Gate(active, callback_url[CamOf(m)])
        armed    == Truthy(before)
        fired    == gated /\ armed /\ ShouldFire(currTime, before[1])
        branch   == IF ~gated THEN "skip"
                    ELSE IF ~armed THEN "arm"
                    ELSE IF fired THEN "fire" ELSE "suppress"
        mail     == IF ~fired THEN "none"
                    ELSE IF mail_ok THEN "sent" ELSE "raised"
        after    == IF ~gated THEN before
                    ELSE IF ~armed THEN <<currTime>>
                    ELSE IF fired THEN TriggerAfterFire(currTime, before[1], mail_ok)
                    ELSE before
        get      == IF ~ReachesGet(gated, fired, mail = "raised") THEN "none"
                    ELSE IF get_ok THEN "ok" ELSE "raised"
        sent     == IF fired THEN SendMailSteps(mail_ok, fail_at) ELSE << >>
        steps    == (IF fired THEN <<"set_last_trigger">> \o sent
                     ELSE IF branch = "arm" THEN <<"set_last_trigger">>
                     ELSE << >>)
                    \o (IF get # "none" THEN <<"requests.get">> ELSE << >>)
    IN  [active |-> active, t |-> currTime, before |-> before, after |-> after,
         mail |-> mail, get |-> get,
         raised |-> IF mail = "raised" THEN "send_mail"
                    ELSE IF get = "raised" THEN "requests.get" ELSE "none",
         branch |-> branch, steps |-> steps,
         \* send_mail: the trigger time it formats (self._sensor_last_trigger),
         \* the name in the subject, the clock when get_picture() ran
         mail_time |-> IF fired THEN after ELSE << >>,
         subject |-> IF fired THEN <<"Motion detected at", SensorName(m)>> ELSE << >>,
         snapshot_at |-> IF Pos(sent, "get_picture") # 0 THEN <<now>> ELSE << >>]

\* update_callback run to completion on the current _sensor_last_trigger.
Handle(m, st, mail_ok, fail_at, get_ok) ==
    HandleWith(m, st, last_trigger[Owner(m)], mail_ok, fail_at, get_ok)

\* The steps of send_mail() at which the model lets it raise.
FailPoints == {"get_picture", "sendmail"}

\* What an invocation of update_callback on m can do now: the adapter reports
\* either state, stamped with the current clock, and send_mail() and
\* requests.get() each complete or raise.
Outcomes(m) ==
    {Handle(m, [active |-> a, last_update |-> now], mail_ok, fail_at, get_ok) :
        a \in BOOLEAN, mail_ok \in BOOLEAN, fail_at \in FailPoints,
        get_ok \in BOOLEAN}

RECURSIVE SumLen(_, _)
SumLen(f, S) ==
    IF S = {} THEN 0
    ELSE LET x == CHOOSE y \in S : TRUE IN Len(f[x]) + SumLen(f, S \ {x})

TotalCalls == SumLen(log, Monitors) + SumLen(inflight, Monitors)

\* State after main() has built the cameras and one HikSensor per channel.
Init ==
    /\ now = 0
    /\ callback_url = [c \in Cameras |-> TRUE]
    /\ \E c \in CTimes : ctime = [m \in Monitors |-> c]
    /\ sensor_state = [m \in Monitors |-> [active |-> FALSE, last_update |-> ctime[m]]]
    /\ last_trigger = [m \in Monitors |-> InitialLastTrigger(ctime[m])]
    /\ log = [m \in Monitors |-> << >>]
    /\ inflight = [m \in Monitors |-> << >>]

\* The wall clock advances.
Tick ==
    /\ \E t \in Times : t > now /\ now' = t
    /\ UNCHANGED <<callback_url, ctime, sensor_state, last_trigger, log, inflight>>

\* update_callback(msg), with the delivery that invokes it: the adapter has
\* decoded a device event for m's channel (state a, stamped with the current
\* clock) and calls the registered callback, which runs to completion.
\* Delivering twice without a Tick in between delivers the same event twice.
DeliverEvent(m) ==
    /\ TotalCalls < MaxCalls
    /\ \E r \in Outcomes(m) :
         /\ sensor_state' = [sensor_state EXCEPT ![m] =
                                [active |-> r.active, last_update |-> r.t]]
         /\ last_trigger' = [last_trigger EXCEPT ![Owner(m)] = r.after]
         /\ log' = [log EXCEPT ![m] = Append(@, r)]
    /\ UNCHANGED <<now, callback_url, ctime, inflight>>

Next ==
    \/ Tick
    \/ \E m \in Monitors : DeliverEvent(m)

Spec == Init /\ [][Next]_vars

\* datetime.now() is the local wall clock: it can be set back (an NTP step,
\* the end of daylight saving time), so a later event can carry an earlier
\* timestamp.
SetBack ==
    /\ \E t \in Times : t < now /\ now' = t
    /\ UNCHANGED <<callback_url, ctime, sensor_state, last_trigger, log, inflight>>

\* The event stream of one camera, back_door, under such a clock.
NextSetBack ==
    \/ Tick
    \/ SetBack
    \/ \E m \in {x \in Monitors : CamOf(x) = "back_door"} : DeliverEvent(m)

SpecSetBack == Init /\ [][NextSetBack]_vars

\* HikCamObject.__init__ takes any callback_url, the empty string included.
InitAnyUrl ==
    /\ now = 0
    /\ callback_url \in [Cameras -> BOOLEAN]
    /\ \E c \in CTimes : ctime = [m \in Monitors |-> c]
    /\ sensor_state = [m \in Monitors |-> [active |-> FALSE, last_update |-> ctime[m]]]
    /\ last_trigger = [m \in Monitors |-> InitialLastTrigger(ctime[m])]
    /\ log = [m \in Monitors |-> << >>]
    /\ inflight = [m \in Monitors |-> << >>]

\* The program with cameras built with any callback_url.
SpecAnyUrl == InitAnyUrl /\ [][Next]_vars

\* update_callback up to the comparison at "if difference.total_seconds() >
\* 60": the sensor state and _sensor_last_trigger are read and compared. An
\* invocation that does not take the firing branch assigns nothing more that
\* another invocation could see between, and completes here; one that takes
\* it is left in flight, holding what it read.
BeginCallback(m) ==
    /\ TotalCalls < MaxCalls
    /\ \E r \in {o \in Outcomes(m) : o.mail # "raised"} :
         /\ sensor_state' = [sensor_state EXCEPT ![m] =
                                [active |-> r.active, last_update |-> r.t]]
         /\ IF r.branch = "fire"
            THEN /\ inflight' = [inflight EXCEPT ![m] =
                       Append(@, [st |-> [active |-> r.active, last_update |-> r.t],
                                  before |-> r.before])]
                 /\ UNCHANGED <<last_trigger, log>>
            ELSE /\ last_trigger' = [last_trigger EXCEPT ![Owner(m)] = r.after]
                 /\ log' = [log EXCEPT ![m] = Append(@, r)]
                 /\ UNCHANGED inflight
    /\ UNCHANGED <<now, callback_url, ctime>>

\* The rest of the firing branch of an invocation in flight:
\* self._sensor_last_trigger = currTime, send_mail(), requests.get().
FinishCallback(m) ==
    /\ inflight[m] # << >>
    /\ \E k \in 1..Len(inflight[m]) :
         \E r \in {HandleWith(m, inflight[m][k].st, inflight[m][k].before,
                              mail_ok, fail_at, get_ok) :
                    mail_ok \in BOOLEAN, fail_at \in FailPoints,
                    get_ok \in BOOLEAN} :
             /\ last_trigger' = [last_trigger EXCEPT ![Owner(m)] = r.after]
             /\ log' = [log EXCEPT ![m] = Append(@, r)]
             /\ inflight' = [inflight EXCEPT ![m] =
                    SubSeq(@, 1, k - 1) \o SubSeq(@, k + 1, Len(@))]
    /\ UNCHANGED <<now, callback_url, ctime, sensor_state>>

NextOverlap ==
    \/ Tick
    \/ \E m \in Monitors : BeginCallback(m)
    \/ \E m \in Monitors : FinishCallback(m)

\* The program when the callbacks of one monitor are invoked from more than
\* one thread, so that deliveries overlap: update_callback takes no lock.
SpecOverlap == Init /\ [][NextOverlap]_vars

\* ------------------------------------------------- reading the call log

Calls(m) == 1..Len(log[m])
\* send_mail() was called by the i-th invocation on m.
Fired(m, i) == log[m][i].mail # "none"
\* Number of send_mail() calls made by monitor m.
MailAttempts(m) == Cardinality({i \in Calls(m) : Fired(m, i)})
\* Number of send_mail() calls on m that completed / that raised.
MailsSent(m) == Cardinality({i \in Calls(m) : log[m][i].mail = "sent"})
MailsRaised(m) == Cardinality({i \in Calls(m) : log[m][i].mail = "raised"})
\* Number of requests.get() calls issued by monitor m.
Gets(m) == Cardinality({i \in Calls(m) : log[m][i].get # "none"})
ActiveCalls(m) == {i \in Calls(m) : log[m][i].active}
\* Index of the first active observation handled by m (0 if none yet).
FirstActive(m) ==
    IF ActiveCalls(m) = {} THEN 0
    ELSE CHOOSE i \in ActiveCalls(m) : \A j \in ActiveCalls(m) : i <= j

\* Fires the debounce rule prescribes for the events evs, starting at
\* position i, when the reference timestamp is ref (<< >>: none yet):
\* an active event with no reference arms silently; an active event more
\* than 60 s after the reference fires and becomes the reference.
RECURSIVE RuleFires(_, _, _)
RuleFires(evs, i, ref) ==
    IF i > Len(evs) THEN 0
    ELSE IF ~evs[i].active THEN RuleFires(evs, i + 1, ref)
    ELSE IF ref = << >> THEN RuleFires(evs, i + 1, <<evs[i].t>>)
    ELSE IF evs[i].t - ref[1] > Sec(60) THEN 1 + RuleFires(evs, i + 1, <<evs[i].t>>)
    ELSE RuleFires(evs, i + 1, ref)

\* --------------------------------------------------------------- claims

\* C1 (as stated): on every monitor the number of send_mail calls equals the
\* number of active events more than 60 s after the last fired event, the
\* very first active event arming without firing.
C1_FirstEventArmsSilently ==
    \A m \in Monitors : MailAttempts(m) = RuleFires(log[m], 1, << >>)

\* C1 (amended): on every monitor the number of send_mail calls equals the
\* number of active events more than 60 s after the reference timestamp,
\* which is the last fired event's timestamp or, before any event fired,
\* the construction time minus 60 s; the first active event is not excluded.
C1_FireCountFromConstruction ==
    \A m \in Monitors :
        MailAttempts(m) = RuleFires(log[m], 1, <<ctime[m] - Sec(60)>>)

\* C1 witness: a monitor whose first active event fired, whose second was
\* suppressed and whose third fired.
C1_Witness ==
    \E m \in Monitors :
        /\ Len(log[m]) = 3
        /\ \A i \in Calls(m) : log[m][i].active
        /\ Fired(m, 1) /\ ~Fired(m, 2) /\ Fired(m, 3)

\* C2 (as stated): the first active observation a monitor handles sets
\* last_trigger_time to the event's timestamp and sends no notification.
C2_FirstActiveArmsOnly ==
    \A m \in Monitors :
        FirstActive(m) # 0 =>
            LET e == log[m][FirstActive(m)] IN
              e.after = <<e.t>> /\ e.mail = "none" /\ e.get = "none"

\* C2 (amended): the monitor is never unarmed; the first active observation
\* finds last_trigger_time = construction time - 60 s and is decided like any
\* other: stamped after construction it sets last_trigger_time to its
\* timestamp and calls send_mail, otherwise it changes nothing and sends no
\* email.
C2_FirstActiveDecidedByConstruction ==
    \A m \in Monitors :
        FirstActive(m) # 0 =>
            LET e == log[m][FirstActive(m)] IN
              /\ e.before = <<ctime[m] - Sec(60)>>
              /\ IF e.t > ctime[m]
                 THEN e.after = <<e.t>> /\ e.mail # "none"
                 ELSE e.after = e.before /\ e.mail = "none"

\* C2 witness: one monitor's first active observation fired, another's was
\* stamped with the construction time and was suppressed.
C2_Witness ==
    \E m1, m2 \in Monitors :
        /\ FirstActive(m1) # 0 /\ Fired(m1, FirstActive(m1))
        /\ FirstActive(m2) # 0 /\ ~Fired(m2, FirstActive(m2))
        /\ log[m2][FirstActive(m2)].t = ctime[m2]

\* C3: the trigger times recorded by any two fired notifications of one
\* monitor are more than 60 s apart.
C3_FiresMoreThanWindowApart ==
    \A m \in Monitors : \A i, j \in Calls(m) :
        (i < j /\ Fired(m, i) /\ Fired(m, j)) =>
            log[m][j].after[1] - log[m][i].after[1] > Sec(60)

\* C3 witness: a monitor fired twice, with inactive or suppressed events
\* handled as well.
C3_Witness ==
    \E m \in Monitors : \E i, j \in Calls(m) :
        i < j /\ Fired(m, i) /\ Fired(m, j) /\ Len(log[m]) = 3

\* C4 (as stated): an active event that does not fire issues neither email
\* nor HTTP GET and leaves last_trigger_time unchanged, and the number of
\* HTTP GETs equals the number of emails dispatched successfully.
C4_GetOnlyOnFire ==
    \A m \in Monitors :
        /\ \A i \in ActiveCalls(m) :
             ~Fired(m, i) =>
                 log[m][i].get = "none" /\ log[m][i].after = log[m][i].before
        /\ Gets(m) = MailsSent(m)

\* C4 (amended): an active event that does not fire sends no email and leaves
\* last_trigger_time unchanged but still issues the HTTP GET; send_mail is
\* called exactly for the active events more than 60 s after
\* last_trigger_time; the HTTP GET is issued for every active event whose
\* send_mail call did not raise, so the number of GETs is the number of
\* active events minus the number of failed email attempts.
C4_GetOnEveryActiveEvent ==
    \A m \in Monitors :
        /\ \A i \in ActiveCalls(m) :
             /\ Fired(m, i) <=> (log[m][i].t - log[m][i].before[1] > Sec(60))
             /\ ~Fired(m, i) =>
                   log[m][i].get # "none" /\ log[m][i].after = log[m][i].before
             /\ log[m][i].get # "none" <=> log[m][i].mail # "raised"
        /\ \A i \in Calls(m) \ ActiveCalls(m) :
             log[m][i].mail = "none" /\ log[m][i].get = "none"
        /\ Gets(m) = Cardinality(ActiveCalls(m)) - MailsRaised(m)

\* C4 witness: a monitor handled a suppressed active event, for which the
\* HTTP GET was issued, and a firing event whose send_mail raised.
C4_Witness ==
    \E m \in Monitors : \E i, j \in ActiveCalls(m) :
        /\ ~Fired(m, i) /\ log[m][i].get = "ok"
        /\ log[m][j].mail = "raised"

\* C5: an event handled while the sensor is inactive leaves last_trigger_time
\* unchanged and issues neither email nor HTTP GET; an active event that
\* follows a fired one, with only inactive events between them, fires only
\* if it is more than 60 s after the fired one.
C5_InactiveEventsChangeNothing ==
    \A m \in Monitors :
        /\ \A i \in Calls(m) \ ActiveCalls(m) :
             /\ log[m][i].after = log[m][i].before
             /\ log[m][i].mail = "none" /\ log[m][i].get = "none"
        /\ \A i \in Calls(m) : log[m][i].before =
             IF i = 1 THEN <<ctime[m] - Sec(60)>> ELSE log[m][i - 1].after
        /\ log[m] # << >> => last_trigger[m] = log[m][Len(log[m])].after
        /\ \A i, k \in ActiveCalls(m) :
             (/\ i < k /\ Fired(m, i)
              /\ \A j \in Calls(m) : (i < j /\ j < k) => ~log[m][j].active)
             => (Fired(m, k) <=> log[m][k].t - log[m][i].t > Sec(60))

\* C5 witness: a fired active event, then an inactive event, then an active
\* event within 60 s of the fired one, which is suppressed.
C5_Witness ==
    \E m \in Monitors :
        /\ Len(log[m]) = 3
        /\ log[m][1].active /\ Fired(m, 1)
        /\ ~log[m][2].active /\ log[m][2].t > log[m][1].t
        /\ log[m][3].active /\ ~Fired(m, 3) /\ log[m][3].t >= log[m][2].t

\* C6: an active event exactly 60 s after last_trigger_time does not fire and
\* leaves last_trigger_time unchanged; an active event more than 60 s after
\* it fires and sets last_trigger_time to the event's timestamp.
C6_StrictComparison ==
    \A m \in Monitors : \A i \in ActiveCalls(m) :
        LET e == log[m][i] IN
          /\ e.t - e.before[1] = Sec(60) => (e.mail = "none" /\ e.after = e.before)
          /\ e.t - e.before[1] > Sec(60) => (e.mail # "none" /\ e.after = <<e.t>>)

\* C6 witness: one active event was handled exactly 60.000 s after
\* last_trigger_time and one 60.001 s after it.
C6_Witness ==
    \E m1, m2 \in Monitors : \E i \in ActiveCalls(m1), j \in ActiveCalls(m2) :
        /\ log[m1][i].t - log[m1][i].before[1] = Sec(60)
        /\ log[m2][j].t - log[m2][j].before[1] = Sec(60) + 1000

\* C7: a failure of the HTTP GET to the callback URL is swallowed: the
\* invocation of update_callback that issued it returns normally, and
\* last_trigger_time and the email's outcome are what they were before the GET.
C7_GetFailureSwallowed ==
    \A m \in Monitors : \A i \in Calls(m) :
        log[m][i].get = "raised" =>
            /\ log[m][i].raised = "none"
            /\ log[m][i].mail \in {"none", "sent"}
            /\ log[m][i].after \in {log[m][i].before, <<log[m][i].t>>}

\* C8: a failure inside send_mail on a firing event does not propagate out of
\* update_callback: the invocation returns normally.
C8_MailFailureHandled ==
    \A m \in Monitors : \A i \in Calls(m) :
        log[m][i].mail = "raised" => log[m][i].raised = "none"

\* C9: once send_mail has failed on one monitor, an active event delivered to
\* any other monitor more than 60 s after that monitor's own last_trigger_time
\* still fires: send_mail is called, last_trigger_time becomes the event's
\* timestamp, the HTTP GET follows a completed send_mail, and the failed
\* monitor's last_trigger_time is left alone.
C9_OtherChannelStillFires ==
    [][\A m1, m2 \in Monitors :
         (/\ m1 # m2
          /\ \E i \in Calls(m1) : log[m1][i].mail = "raised"
          /\ Len(log'[m2]) = Len(log[m2]) + 1)
         => LET e == log'[m2][Len(log'[m2])] IN
              (e.active /\ e.t - last_trigger[m2][1] > Sec(60)) =>
                  /\ e.mail # "none"
                  /\ e.mail = "sent" => e.get # "none"
                  /\ last_trigger'[m2] = <<e.t>>
                  /\ last_trigger'[m1] = last_trigger[m1]]_vars

\* C9 witness: send_mail failed on one channel; later events fired, with the
\* email sent, on another channel of the same camera and on a channel of
\* another camera.
C9_Witness ==
    \E m1, m2, m3 \in Monitors :
        /\ m1 # m2 /\ CamOf(m1) = CamOf(m2) /\ CamOf(m3) # CamOf(m1)
        /\ Len(log[m1]) = 1 /\ log[m1][1].mail = "raised"
        /\ Len(log[m2]) = 1 /\ log[m2][1].mail = "sent" /\ log[m2][1].t > log[m1][1].t
        /\ Len(log[m3]) = 1 /\ log[m3][1].mail = "sent" /\ log[m3][1].t > log[m1][1].t

\* C10: when the same active event (same timestamp) is handled twice in
\* succession by one monitor, the second handling calls no send_mail and
\* leaves last_trigger_time as the first left it, so at most one fires.
C10_SameEventTwiceFiresOnce ==
    \A m \in Monitors : \A i \in Calls(m) :
        (/\ i + 1 \in Calls(m)
         /\ log[m][i].active /\ log[m][i + 1].active
         /\ log[m][i + 1].t = log[m][i].t)
        => /\ ~Fired(m, i + 1)
           /\ log[m][i + 1].after = log[m][i].after

\* C10 witness: an active event fired, its send_mail raised, and the same
\* event was handled again at once.
C10_Witness ==
    \E m \in Monitors :
        /\ Len(log[m]) >= 2
        /\ log[m][1].mail = "raised" /\ log[m][2].active
        /\ log[m][2].t = log[m][1].t

\* C11: every monitor has exactly one last_trigger_time, and no invocation of
\* update_callback stores a value smaller than the one it replaces, also when
\* the clock that stamps the events has been set back.
C11_LastTriggerNeverDecreases ==
    \A m \in Monitors :
        /\ Len(last_trigger[m]) = 1
        /\ last_trigger[m][1] >= ctime[m] - Sec(60)
        /\ \A i \in Calls(m) :
             /\ Len(log[m][i].after) = 1
             /\ log[m][i].after[1] >= log[m][i].before[1]

\* C11 witness: after a fire, an active event stamped earlier than
\* last_trigger_time was handled, and one stamped later fired.
C11_Witness ==
    \E m \in Monitors : \E i, j \in ActiveCalls(m) :
        /\ log[m][i].t < log[m][i].before[1]
        /\ Fired(m, j) /\ log[m][j].after[1] > log[m][j].before[1]

\* C12: two events delivered to the same monitor with timestamps within 60 s
\* of each other never both fire, however their deliveries interleave.
C12_NoTwoFiresWithinWindow ==
    \A m \in Monitors : \A i, j \in Calls(m) :
        (i < j /\ Fired(m, i) /\ Fired(m, j)) =>
            \/ log[m][j].t - log[m][i].t > Sec(60)
            \/ log[m][i].t - log[m][j].t > Sec(60)

\* What C13 says of a fired event in either order of the steps: the email
\* went out, its subject names the sensor, its trigger time is the event's
\* timestamp, and the snapshot was fetched during this invocation, not before
\* the event was stamped.
MailCarriesEvent(m, e) ==
    /\ e.after = <<e.t>>
    /\ e.mail_time = <<e.t>>
    /\ e.subject = <<"Motion detected at", SensorName(m)>>
    /\ e.snapshot_at # << >> /\ e.snapshot_at[1] >= e.t

\* C13 (as stated): on a fired event whose email is sent, last_trigger_time is
\* set first, then the snapshot is fetched, then the email is composed
\* (subject, body with the trigger time), then it is sent.
C13_FetchThenCompose ==
    \A m \in Monitors : \A i \in Calls(m) :
        LET e == log[m][i] IN
          e.mail = "sent" =>
              /\ MailCarriesEvent(m, e)
              /\ 0 < Pos(e.steps, "set_last_trigger")
              /\ Pos(e.steps, "set_last_trigger") < Pos(e.steps, "get_picture")
              /\ Pos(e.steps, "get_picture") < Pos(e.steps, "compose_subject")
              /\ Pos(e.steps, "get_picture") < Pos(e.steps, "compose_body")
              /\ Pos(e.steps, "compose_body") < Pos(e.steps, "sendmail")

\* C13 (amended): on a fired event whose email is sent, last_trigger_time is
\* set first, then the subject and the body with the trigger time are
\* composed, then the snapshot is fetched, then it is attached, then the
\* email is sent.
C13_ComposeThenFetch ==
    \A m \in Monitors : \A i \in Calls(m) :
        LET e == log[m][i] IN
          e.mail = "sent" =>
              /\ MailCarriesEvent(m, e)
              /\ 0 < Pos(e.steps, "set_last_trigger")
              /\ Pos(e.steps, "set_last_trigger") < Pos(e.steps, "compose_subject")
              /\ Pos(e.steps, "compose_subject") < Pos(e.steps, "compose_body")
              /\ Pos(e.steps, "compose_body") < Pos(e.steps, "get_picture")
              /\ Pos(e.steps, "get_picture") < Pos(e.steps, "attach_snapshot")
              /\ Pos(e.steps, "attach_snapshot") < Pos(e.steps, "sendmail")

\* C13 witness: a monitor sent two emails, each with a snapshot fetched at
\* its own event.
C13_Witness ==
    \E m \in Monitors : \E i, j \in Calls(m) :
        /\ i < j /\ log[m][i].mail = "sent" /\ log[m][j].mail = "sent"
        /\ log[m][i].snapshot_at # log[m][j].snapshot_at

\* C14: when send_mail raises on a firing event, last_trigger_time stays at
\* that event's timestamp, send_mail was entered once for it, and every later
\* active event within 60 s of it is suppressed.
C14_FailedMailNotRetried ==
    \A m \in Monitors : \A i \in Calls(m) :
        log[m][i].mail = "raised" =>
            /\ log[m][i].after = <<log[m][i].t>>
            /\ Cardinality({k \in 1..Len(log[m][i].steps) :
                   log[m][i].steps[k] = "format_trigger_time"}) = 1
            /\ \A j \in ActiveCalls(m) :
                 (i < j /\ log[m][j].t - log[m][i].t <= Sec(60)) =>
                     /\ ~Fired(m, j)
                     /\ log[m][j].before[1] >= log[m][i].t

\* C14 witness: send_mail raised at the snapshot fetch for one event and at
\* the SMTP send for another, and an active event within 60 s of a failed
\* one was handled.
C14_Witness ==
    \E m1, m2 \in Monitors :
        /\ Len(log[m1]) = 2
        /\ log[m1][1].mail = "raised" /\ Pos(log[m1][1].steps, "sendmail") # 0
        /\ log[m1][2].active /\ log[m1][2].t = log[m1][1].t + Sec(30)
        /\ Len(log[m2]) = 1
        /\ log[m2][1].mail = "raised" /\ Pos(log[m2][1].steps, "sendmail") = 0

\* C15: an invocation of update_callback on one monitor leaves the
\* last_trigger_time of every other monitor unchanged.
C15_OtherMonitorsUntouched ==
    [][\A m \in Monitors :
         Len(log'[m]) # Len(log[m]) =>
             \A m2 \in Monitors \ {m} : last_trigger'[m2] = last_trigger[m2]]_vars

\* C15 witness: one monitor has fired, with the email failing, while the
\* other channel of its camera and the other camera's channel have handled
\* events that changed nothing.
C15_Witness ==
    \E m1, m2, m3 \in Monitors :
        /\ m1 # m2 /\ CamOf(m1) = CamOf(m2) /\ CamOf(m3) # CamOf(m1)
        /\ Len(log[m1]) = 1 /\ log[m1][1].mail = "raised"
        /\ Len(log[m2]) = 1 /\ ~log[m2][1].active
        /\ Len(log[m3]) = 1 /\ log[m3][1].active /\ ~Fired(m3, 1)
        /\ last_trigger[m1] # last_trigger[m2]

\* C16: last_trigger_time is never absent: it is construction time - 60 s
\* until an event fires, no invocation takes the arming branch, and every
\* active event is decided by the comparison with a timestamp.
C16_NeverAbsent ==
    \A m \in Monitors :
        /\ Truthy(last_trigger[m])
        /\ log[m] = << >> => last_trigger[m] = <<ctime[m] - Sec(60)>>
        /\ \A i \in Calls(m) :
             /\ log[m][i].branch # "arm"
             /\ Truthy(log[m][i].before) /\ Truthy(log[m][i].after)
             /\ log[m][i].active =>
                  log[m][i].branch =
                      IF log[m][i].t - log[m][i].before[1] > Sec(60)
                      THEN "fire" ELSE "suppress"

\* C16 witness: a monitor has handled a first active event that was
\* suppressed and a later one that fired.
C16_Witness ==
    \E m \in Monitors :
        /\ Len(log[m]) >= 2
        /\ log[m][1].branch = "suppress" /\ log[m][2].branch = "fire"

\* C17: on a camera whose callback_url is empty no event updates
\* last_trigger_time, sends an email or issues an HTTP GET.
C17_EmptyUrlDoesNothing ==
    \A m \in Monitors :
        ~callback_url[CamOf(m)] =>
            /\ last_trigger[m] = <<ctime[m] - Sec(60)>>
            /\ \A i \in Calls(m) :
                 /\ log[m][i].after = log[m][i].before
                 /\ log[m][i].mail = "none" /\ log[m][i].get = "none"
                 /\ log[m][i].steps = << >>

\* C17 witness: a monitor of a camera with an empty callback_url handled
\* active events more than 60 s and more than 120 s after its
\* last_trigger_time, while a monitor of a camera with a URL fired.
C17_Witness ==
    \E m1, m2 \in Monitors :
        /\ ~callback_url[CamOf(m1)] /\ callback_url[CamOf(m2)]
        /\ Len(log[m1]) = 2
        /\ log[m1][1].active /\ log[m1][1].t - last_trigger[m1][1] > Sec(60)
        /\ log[m1][2].active /\ log[m1][2].t - last_trigger[m1][1] > Sec(120)
        /\ Len(log[m2]) = 1 /\ Fired(m2, 1)

\* C18: within one invocation the HTTP GET comes after every step of
\* send_mail, and an invocation whose send_mail raised issues no HTTP GET.
C18_GetOnlyAfterMailCompleted ==
    \A m \in Monitors : \A i \in Calls(m) :
        LET e == log[m][i] IN
          /\ e.mail = "raised" =>
                 e.get = "none" /\ Pos(e.steps, "requests.get") = 0
          /\ (e.mail = "sent" /\ e.get # "none") =>
                 /\ Pos(e.steps, "requests.get") = Len(e.steps)
                 /\ 0 < Pos(e.steps, "sendmail")
                 /\ Pos(e.steps, "sendmail") < Pos(e.steps, "requests.get")
          /\ e.mail = "sent" => e.get # "none"

\* C18 witness: one invocation sent the email and then issued the GET, one
\* raised in send_mail at the SMTP send and one at the snapshot fetch.
C18_Witness ==
    \E m1, m2, m3 \in Monitors :
        /\ m1 # m2 /\ m2 # m3 /\ m1 # m3
        /\ Len(log[m1]) = 1 /\ log[m1][1].mail = "sent" /\ log[m1][1].get = "ok"
        /\ Len(log[m2]) = 1 /\ log[m2][1].mail = "raised"
        /\ Pos(log[m2][1].steps, "sendmail") # 0
        /\ Len(log[m3]) = 1 /\ log[m3][1].mail = "raised"
        /\ Pos(log[m3][1].steps, "sendmail") = 0

====
